---- MODULE Spec2Model ----
(***************************************************************************)
(* Verification model of discord-rss-bot: the dispatch pipeline of         *)
(* feeds.py (check_feed, check_feeds, send_to_discord), the interval job   *)
(* registered by main.startup, the request handlers of main.py            *)
(* (add_webhook, delete_webhook, create_feed, remove_feed, set_whitelist,  *)
(* set_blacklist), the rule filters entry_is_whitelisted /                 *)
(* entry_is_blacklisted, and the renderer of custom_message.py             *)
(* (replace_tags_in_text_message, replace_tags_in_embed,                   *)
(* get_images_from_entry, save_embed, get_embed).                          *)
(*                                                                         *)
(* Strings that the code inspects character by character (names, URLs,     *)
(* rule tags, entry fields) are sequences of one-character strings.        *)
(***************************************************************************)
EXTENDS Integers, Sequences, FiniteSets, TLC

(***************************************************************************)
(* Bounds of the model.                                                    *)
(***************************************************************************)
\* number of entries the feed sources can ever publish
NumEntries == 3
\* number of pieces (tokens, escapes, plain characters) of a template
MaxPieces == 2
\* number of firings of the interval timer that are explored
MaxTimer == 1
\* number of rule tags that the rule handlers may configure in total
MaxRuleTags == 1
\* largest number of registrations explored in the global `webhooks` tag
MaxHooks == 2

(***************************************************************************)
(* Values.                                                                 *)
(***************************************************************************)
\* a tag that is not set: reader.get_tag raises TagNotFoundError for it
NoTag == <<"<no tag>">>
\* Python None where a string is expected
None == <<"<None>">>
\* no feed argument, no response, no exception
Nothing == "none"

FeedUrls == {"f1", "f2"}
EntryIds == 1..NumEntries

\* every entry belongs to exactly one feed (entry.feed)
FeedOf(e) == IF e % 2 = 1 THEN "f1" ELSE "f2"

\* entry.title / entry.summary / entry.content[0].value of the entries
\* that the feed sources publish
Title(e) == IF e % 3 = 1 THEN <<"S", "p">>
            ELSE IF e % 3 = 2 THEN <<"r", "e">>
            ELSE <<"a", "b">>
Summary(e) == IF e % 2 = 0 THEN None ELSE <<"r", "e", "s">>
Content(e) == IF e % 3 = 0 THEN <<"s", "p">> ELSE None

(***************************************************************************)
(* String helpers.                                                         *)
(***************************************************************************)
IsSpace(c) == c \in {" ", "\t", "\n"}

\* str.lower() on one character of the alphabet in use
LowerChar(c) == CASE c = "S" -> "s"
                  [] c = "P" -> "p"
                  [] c = "R" -> "r"
                  [] c = "E" -> "e"
                  [] c = "A" -> "a"
                  [] c = "B" -> "b"
                  [] OTHER -> c
Lower(s) == [i \in 1..Len(s) |-> LowerChar(s[i])]

RECURSIVE LStrip(_)
LStrip(s) == IF s # <<>> /\ IsSpace(Head(s)) THEN LStrip(Tail(s)) ELSE s

RECURSIVE RStrip(_)
RStrip(s) == IF s # <<>> /\ IsSpace(s[Len(s)])
             THEN RStrip(SubSeq(s, 1, Len(s) - 1)) ELSE s

\* str.strip(): remove leading and trailing whitespace
Strip(s) == RStrip(LStrip(s))

\* `needle in haystack` on Python strings
Contains(haystack, needle) ==
    \E i \in 1..(Len(haystack) - Len(needle) + 1) :
        SubSeq(haystack, i, i + Len(needle) - 1) = needle

\* the whitespace- or comma-delimited words of a rule tag
RECURSIVE SplitWords(_, _, _)
SplitWords(s, word, acc) ==
    IF s = <<>>
    THEN IF word = <<>> THEN acc ELSE acc \cup {word}
    ELSE IF IsSpace(Head(s)) \/ Head(s) = ","
         THEN SplitWords(Tail(s), <<>>,
                         IF word = <<>> THEN acc ELSE acc \cup {word})
         ELSE SplitWords(Tail(s), Append(word, Head(s)), acc)

Words(tag) == SplitWords(tag, <<>>, {})

\* truthiness of a tag value: set and not the empty string
NonEmpty(v) == v # NoTag /\ v # <<>>

(***************************************************************************)
(* State.                                                                  *)
(***************************************************************************)
VARIABLES
    feeds,        \* feed URLs present in the feed store
    stored,       \* entries the feed store holds
    read,         \* entry.read of every entry
    webhookTag,   \* per feed: its `webhook` tag
    ruleTags,     \* per feed: the whitelist_* / blacklist_* tags
    webhooks,     \* the global `webhooks` tag: sequence of {name, url}
    httpResult,   \* what the last registry request returned
    pc,           \* position of the pipeline run
    runKind,      \* "check_feed" or "check_feeds"
    runFeed,      \* argument of check_feed
    runEntries,   \* entries returned by get_entries(read=False) for the run
    queue,        \* entries the for loop has not reached yet
    called,       \* entries passed to send_to_discord in this run
    cur,          \* argument of the running send_to_discord call
    resp,         \* response of webhook.execute() in the running call
    exc,          \* exception that left the run
    writes,       \* values the running call wrote to the read flag
    lastOutcome,  \* per entry: how its latest send_to_discord call ended
    scheduler,    \* the BackgroundScheduler of startup()
    timerFirings, \* firings of the interval job so far
    timerChecks,  \* firings that ran the whole-store check
    jobError,     \* exception raised by the latest firing of the job
    cfPc,         \* position of the running create_feed request
    cfUrl,        \* clean_feed_url of the running create_feed request
    cfHook,       \* webhook_dropdown of the running create_feed request
    cfQueue,      \* entries the loop of create_feed has not marked yet
    cfOld,        \* entries that create_feed fetched when it added their feed
    customMessage,\* the `custom_message` tag of the feed being rendered
    embedTag,     \* the `embed` tag of the feed being rendered
    renderCall,   \* the latest rendering call: function and entry
    renderResult  \* what the latest rendering call returned or raised

storeVars == <<feeds, stored, read, webhookTag>>
ruleVars == <<ruleTags>>
hookVars == <<webhooks, httpResult>>
runVars == <<pc, runKind, runFeed, runEntries, queue, called, cur, resp, exc,
             writes, lastOutcome>>
timerVars == <<scheduler, timerFirings, timerChecks, jobError>>
createVars == <<cfPc, cfUrl, cfHook, cfQueue, cfOld>>
renderVars == <<customMessage, embedTag, renderCall, renderResult>>
vars == <<storeVars, ruleVars, hookVars, runVars, timerVars, createVars, renderVars>>

(***************************************************************************)
(* Rule filters.  discord_rss_bot/whitelist.py and blacklist.py are not    *)
(* part of the sources at hand; has_white_tags, should_be_sent,            *)
(* has_black_tags and should_be_skipped follow section 4.1 of the          *)
(* specification.                                                          *)
(***************************************************************************)
Categories == {"title", "summary", "content"}
WhiteKey(cat) == CASE cat = "title" -> "whitelist_title"
                   [] cat = "summary" -> "whitelist_summary"
                   [] cat = "content" -> "whitelist_content"
BlackKey(cat) == CASE cat = "title" -> "blacklist_title"
                   [] cat = "summary" -> "blacklist_summary"
                   [] cat = "content" -> "blacklist_content"
RuleKeys == {WhiteKey(c) : c \in Categories} \cup {BlackKey(c) : c \in Categories}

Field(cat, e) == CASE cat = "title" -> Title(e)
                   [] cat = "summary" -> Summary(e)
                   [] cat = "content" -> Content(e)

\* one of the words of the tag occurs, ignoring case, in the entry's field;
\* a field the entry does not have matches nothing
FieldMatches(tag, field) ==
    /\ NonEmpty(tag)
    /\ field # None
    /\ \E w \in Words(tag) : Contains(Lower(field), Lower(w))

has_white_tags(f) == \E c \in Categories : NonEmpty(ruleTags[f][WhiteKey(c)])

should_be_sent(e) ==
    \A c \in Categories :
        NonEmpty(ruleTags[FeedOf(e)][WhiteKey(c)])
            => FieldMatches(ruleTags[FeedOf(e)][WhiteKey(c)], Field(c, e))

has_black_tags(f) == \E c \in Categories : NonEmpty(ruleTags[f][BlackKey(c)])

should_be_skipped(e) ==
    \E c \in Categories :
        FieldMatches(ruleTags[FeedOf(e)][BlackKey(c)], Field(c, e))

\* variant: an inactive whitelist counts as whitelisted
entry_is_whitelisted_PassInactive(e) == ~has_white_tags(FeedOf(e)) \/ should_be_sent(e)

\* custom_filters.entry_is_whitelisted (the same body as main.py:72-83)
entry_is_whitelisted(e) == has_white_tags(FeedOf(e)) /\ should_be_sent(e)

\* custom_filters.entry_is_blacklisted (the same body as main.py:86-97)
entry_is_blacklisted(e) == has_black_tags(FeedOf(e)) /\ should_be_skipped(e)

\* section 4.1: the whitelist check passes when the whitelist is inactive
\* or satisfied
WhitelistCheckPasses(e) == ~has_white_tags(FeedOf(e)) \/ should_be_sent(e)

\* section 4.1: final admission
Admit(e) == WhitelistCheckPasses(e) /\ ~entry_is_blacklisted(e)

(***************************************************************************)
(* Feed store.                                                             *)
(***************************************************************************)
\* variant: the optimistic mark is left out
mark_entry_as_read_Skipped(rd, e) == rd

\* reader.mark_entry_as_read(entry)
mark_entry_as_read(rd, e) == [rd EXCEPT ![e] = TRUE]

\* reader.mark_entry_as_unread(entry)
mark_entry_as_unread(rd, e) == [rd EXCEPT ![e] = FALSE]

\* variant: the read flag is not looked at
UnreadEntries_All(st, rd, url) ==
    {e \in st : url = Nothing \/ FeedOf(e) = url}

\* reader.get_entries(read=False) and reader.get_entries(feed=url, read=False)
UnreadEntries(st, rd, url) ==
    {e \in st : ~rd[e] /\ (url = Nothing \/ FeedOf(e) = url)}

\* the entries in the order the for loop meets them (oldest first)
RECURSIVE InOrder(_)
InOrder(S) ==
    IF S = {} THEN <<>>
    ELSE LET m == CHOOSE x \in S : \A y \in S : x <= y
         IN <<m>> \o InOrder(S \ {m})

\* entries a refresh of the feeds in `scope` can merge into the store
Fetchable(scope) == {e \in EntryIds \ stored : FeedOf(e) \in scope}

\* errors reader.update_feed / reader.update_feeds raise to their caller
UpdateErrors(kind, url) ==
    IF kind = "check_feeds" THEN {"StorageError"}
    ELSE IF url \in feeds THEN {"ParseError", "StorageError"}
    ELSE {"FeedNotFoundError"}

FeedStoreErrors == {"FeedNotFoundError", "ParseError", "StorageError"}

(***************************************************************************)
(* Initial state: the persisted store the process opens.  It holds any     *)
(* set of feeds, each with or without a `webhook` tag; no entry has been   *)
(* fetched, no rule is configured and the webhook registry is empty.       *)
(***************************************************************************)
WebhookUrl == <<"u">>
TagValues == {NoTag, <<>>, WebhookUrl}

\* what every initial state shares: no entry fetched yet, no rule tag, no
\* request and no run under way, the scheduler not started
InitCommon ==
    /\ stored = {}
    /\ read = [e \in EntryIds |-> FALSE]
    /\ ruleTags = [f \in FeedUrls |-> [k \in RuleKeys |-> NoTag]]
    /\ httpResult = "none"
    /\ pc = "idle"
    /\ runKind = Nothing
    /\ runFeed = Nothing
    /\ runEntries = {}
    /\ queue = <<>>
    /\ called = {}
    /\ cur = 0
    /\ resp = Nothing
    /\ exc = Nothing
    /\ writes = <<>>
    /\ lastOutcome = [e \in EntryIds |-> "none"]
    /\ scheduler = "not started"
    /\ timerFirings = 0
    /\ timerChecks = 0
    /\ jobError = Nothing
    /\ cfPc = "idle"
    /\ cfUrl = Nothing
    /\ cfHook = None
    /\ cfQueue = <<>>
    /\ cfOld = {}
    /\ renderCall = [func |-> Nothing, entry |-> 0]
    /\ renderResult = [raised |-> Nothing, text |-> <<>>, list |-> <<>>, embed |-> <<>>]

Init ==
    /\ InitCommon
    /\ feeds \in SUBSET FeedUrls
    /\ webhookTag \in [FeedUrls -> TagValues]
    /\ \A f \in FeedUrls \ feeds : webhookTag[f] = NoTag
    /\ webhooks = <<>>
    /\ customMessage = NoTag
    /\ embedTag = NoTag

(***************************************************************************)
(* feeds.py: check_feed, check_feeds, send_to_discord.                     *)
(***************************************************************************)
\* entry into check_feeds()
CheckFeedsStart ==
    /\ pc = "idle"
    /\ pc' = "update"
    /\ runKind' = "check_feeds"
    /\ runFeed' = Nothing
    /\ UNCHANGED <<runEntries, queue, called, cur, resp, exc, writes, lastOutcome>>
    /\ UNCHANGED <<storeVars, ruleVars, hookVars, timerVars, createVars, renderVars>>

\* entry into check_feed(feed_url)
CheckFeedStart(url) ==
    /\ pc = "idle"
    /\ pc' = "update"
    /\ runKind' = "check_feed"
    /\ runFeed' = url
    /\ UNCHANGED <<runEntries, queue, called, cur, resp, exc, writes, lastOutcome>>
    /\ UNCHANGED <<storeVars, ruleVars, hookVars, timerVars, createVars, renderVars>>

\* reader.update_feeds() / reader.update_feed(feed_url) returns, then
\* entries = reader.get_entries(..., read=False)
UpdateOk ==
    /\ pc = "update"
    /\ runKind = "check_feed" => runFeed \in feeds
    /\ \E new \in SUBSET Fetchable(IF runKind = "check_feeds" THEN feeds ELSE {runFeed}) :
          /\ stored' = stored \cup new
          /\ runEntries' = UnreadEntries(stored \cup new, read, runFeed)
          /\ queue' = InOrder(UnreadEntries(stored \cup new, read, runFeed))
    /\ pc' = "loop"
    /\ UNCHANGED <<feeds, read, webhookTag>>
    /\ UNCHANGED <<runKind, runFeed, called, cur, resp, exc, writes, lastOutcome>>
    /\ UNCHANGED <<ruleVars, hookVars, timerVars, createVars, renderVars>>

\* reader.update_feeds() / reader.update_feed(feed_url) raises: nothing in
\* check_feed or check_feeds catches it
UpdateRaises(err) ==
    /\ pc = "update"
    /\ err \in UpdateErrors(runKind, runFeed)
    /\ pc' = "raised"
    /\ exc' = err
    /\ UNCHANGED <<runKind, runFeed, runEntries, queue, called, cur, resp, writes,
                   lastOutcome>>
    /\ UNCHANGED <<storeVars, ruleVars, hookVars, timerVars, createVars, renderVars>>

\* for entry in entries: send_to_discord(entry)
Loop ==
    /\ pc \in {"loop", "returned"}
    /\ IF queue = <<>>
       THEN /\ pc' = "done"
            /\ UNCHANGED <<queue, called, cur, writes, resp>>
       ELSE /\ pc' = "mark"
            /\ cur' = Head(queue)
            /\ queue' = Tail(queue)
            /\ called' = called \cup {Head(queue)}
            /\ writes' = <<>>
            /\ resp' = Nothing
    /\ UNCHANGED <<runKind, runFeed, runEntries, exc, lastOutcome>>
    /\ UNCHANGED <<storeVars, ruleVars, hookVars, timerVars, createVars, renderVars>>

\* send_to_discord: reader.mark_entry_as_read(entry)
MarkRead ==
    /\ pc = "mark"
    /\ read' = mark_entry_as_read(read, cur)
    /\ writes' = Append(writes, TRUE)
    /\ pc' = "get_tag"
    /\ UNCHANGED <<feeds, stored, webhookTag>>
    /\ UNCHANGED <<runKind, runFeed, runEntries, queue, called, cur, resp, exc,
                   lastOutcome>>
    /\ UNCHANGED <<ruleVars, hookVars, timerVars, createVars, renderVars>>

\* how reader.get_tag(entry.feed.url, "webhook") and the `if not webhook_url`
\* test end: the exception raised, or Nothing when the call goes on
WebhookLookup(tag) ==
    IF tag = NoTag THEN "TagNotFoundError"
    ELSE IF tag = <<>> THEN "NoWebhookFoundError"
    ELSE Nothing

\* send_to_discord: webhook_url = reader.get_tag(...); if not webhook_url: raise
GetWebhook ==
    /\ pc = "get_tag"
    /\ LET err == WebhookLookup(webhookTag[FeedOf(cur)])
       IN IF err = Nothing
          THEN /\ pc' = "post"
               /\ UNCHANGED <<exc, lastOutcome>>
          ELSE /\ pc' = "raised"
               /\ exc' = err
               /\ lastOutcome' = [lastOutcome EXCEPT ![cur] = err]
    /\ UNCHANGED <<runKind, runFeed, runEntries, queue, called, cur, resp, writes>>
    /\ UNCHANGED <<storeVars, ruleVars, hookVars, timerVars, createVars, renderVars>>

\* send_to_discord: response = webhook.execute()
Post(r) ==
    /\ pc = "post"
    /\ resp' = r
    /\ pc' = "resp"
    /\ UNCHANGED <<runKind, runFeed, runEntries, queue, called, cur, exc, writes,
                   lastOutcome>>
    /\ UNCHANGED <<storeVars, ruleVars, hookVars, timerVars, createVars, renderVars>>

\* the read-flag writes of `if not response.ok: reader.mark_entry_as_unread(entry)`
RevertWrites(r) == IF r = "ok" THEN <<>> ELSE <<FALSE>>

\* variant: a failed delivery is not reverted
AfterResponse_NoRevert(rd, e, r) == rd

\* the read flags after `if not response.ok: reader.mark_entry_as_unread(entry)`
AfterResponse(rd, e, r) ==
    IF RevertWrites(r) = <<>> THEN rd ELSE mark_entry_as_unread(rd, e)

\* send_to_discord: if not response.ok: ...; return response
HandleResponse ==
    /\ pc = "resp"
    /\ read' = AfterResponse(read, cur, resp)
    /\ writes' = writes \o RevertWrites(resp)
    /\ lastOutcome' = [lastOutcome EXCEPT ![cur] = resp]
    /\ pc' = "returned"
    /\ UNCHANGED <<feeds, stored, webhookTag>>
    /\ UNCHANGED <<runKind, runFeed, runEntries, queue, called, cur, resp, exc>>
    /\ UNCHANGED <<ruleVars, hookVars, timerVars, createVars, renderVars>>

\* check_feed / check_feeds has returned or raised: the worker is free again
RunEnd ==
    /\ pc \in {"done", "raised"}
    /\ pc' = "idle"
    /\ runKind' = Nothing
    /\ runFeed' = Nothing
    /\ runEntries' = {}
    /\ queue' = <<>>
    /\ called' = {}
    /\ cur' = 0
    /\ resp' = Nothing
    /\ exc' = Nothing
    /\ writes' = <<>>
    /\ UNCHANGED lastOutcome
    /\ UNCHANGED <<storeVars, ruleVars, hookVars, timerVars, createVars, renderVars>>

(***************************************************************************)
(* main.py: the interval job registered by startup().                      *)
(***************************************************************************)
\* scheduler.add_job(send_to_discord, "interval", minutes=15, ...): the
\* callable of the job and the positional arguments it is called with
JobFunc == "send_to_discord"
JobArgs == <<>>

\* number of required positional parameters of the functions of feeds.py
Arity(func) == CASE func = "send_to_discord" -> 1
                 [] func = "check_feed" -> 1
                 [] func = "check_feeds" -> 0

\* the job's arguments fit the signature of its callable
JobFits == Len(JobArgs) = Arity(JobFunc)

\* startup(): scheduler.add_job(...); scheduler.start().  Whether add_job
\* itself rejects a job whose arguments do not fit its callable (ValueError,
\* which leaves startup before scheduler.start()) or accepts it is the
\* scheduler library's choice: both outcomes are kept.
Startup ==
    /\ scheduler = "not started"
    /\ scheduler' \in (IF JobFits THEN {"running"} ELSE {"running", "failed"})
    /\ UNCHANGED <<timerFirings, timerChecks, jobError>>
    /\ UNCHANGED <<storeVars, ruleVars, hookVars, runVars, createVars, renderVars>>

\* one firing of the interval timer: the scheduler calls JobFunc(*JobArgs);
\* a call with the wrong number of arguments raises TypeError before the
\* body of the function runs, and the scheduler logs the exception
TimerFire ==
    /\ scheduler = "running"
    /\ timerFirings < MaxTimer
    /\ timerFirings' = timerFirings + 1
    /\ IF JobFunc = "check_feeds" /\ JobFits
       THEN /\ pc = "idle"
            /\ pc' = "update"
            /\ runKind' = "check_feeds"
            /\ runFeed' = Nothing
            /\ timerChecks' = timerChecks + 1
            /\ jobError' = Nothing
       ELSE /\ jobError' = IF JobFits THEN Nothing ELSE "TypeError"
            /\ UNCHANGED <<timerChecks, pc, runKind, runFeed>>
    /\ UNCHANGED scheduler
    /\ UNCHANGED <<runEntries, queue, called, cur, resp, exc, writes, lastOutcome>>
    /\ UNCHANGED <<storeVars, ruleVars, hookVars, createVars, renderVars>>

(***************************************************************************)
(* main.py: set_whitelist and set_blacklist.                               *)
(***************************************************************************)
\* if value: reader.set_tag(feed_url, key, value)
SetIfGiven(tags, key, value) ==
    IF value # None /\ value # <<>> THEN [tags EXCEPT ![key] = value] ELSE tags

ConfiguredRuleTags(rt) ==
    Cardinality({fk \in FeedUrls \X RuleKeys : rt[fk[1]][fk[2]] # NoTag})

\* POST /whitelist
set_whitelist(feed_url, whitelist_title, whitelist_summary, whitelist_content) ==
    /\ cfPc = "idle"
    /\ feed_url \in feeds
    /\ ruleTags' = [ruleTags EXCEPT ![feed_url] =
           SetIfGiven(SetIfGiven(SetIfGiven(@, "whitelist_title", whitelist_title),
                                 "whitelist_summary", whitelist_summary),
                      "whitelist_content", whitelist_content)]
    /\ ConfiguredRuleTags(ruleTags') <= MaxRuleTags
    /\ UNCHANGED <<storeVars, hookVars, runVars, timerVars, createVars, renderVars>>

\* POST /blacklist
set_blacklist(feed_url, blacklist_title, blacklist_summary, blacklist_content) ==
    /\ cfPc = "idle"
    /\ feed_url \in feeds
    /\ ruleTags' = [ruleTags EXCEPT ![feed_url] =
           SetIfGiven(SetIfGiven(SetIfGiven(@, "blacklist_title", blacklist_title),
                                 "blacklist_summary", blacklist_summary),
                      "blacklist_content", blacklist_content)]
    /\ ConfiguredRuleTags(ruleTags') <= MaxRuleTags
    /\ UNCHANGED <<storeVars, hookVars, runVars, timerVars, createVars, renderVars>>

\* form values of the rule requests: a field left out arrives as None
WhiteTitleInputs == {None, <<"r", "e">>}
WhiteSummaryInputs == {None, <<"r", "e">>}
WhiteContentInputs == {None}
BlackTitleInputs == {None, <<"S", "P", ",", " ", "x">>}
BlackSummaryInputs == {None}
BlackContentInputs == {None, <<"S", "P", ",", " ", "x">>}

(***************************************************************************)
(* main.py: add_webhook and delete_webhook.                                *)
(***************************************************************************)
\* variant: the uniqueness test compares the name as submitted
WebhookNameIsNew_Unstripped(hooks, webhook_name) ==
    \A i \in 1..Len(hooks) : hooks[i].name # webhook_name

\* all(webhook["name"] != clean_webhook_name for webhook in webhooks)
WebhookNameIsNew(hooks, webhook_name) ==
    \A i \in 1..Len(hooks) : hooks[i].name # Strip(webhook_name)

\* POST /add_webhook
add_webhook(webhook_name, webhook_url) ==
    /\ cfPc = "idle"
    /\ IF WebhookNameIsNew(webhooks, webhook_name)
       THEN /\ Len(webhooks) < MaxHooks
            /\ webhooks' = Append(webhooks, [name |-> Strip(webhook_name),
                                             url |-> Strip(webhook_url)])
            /\ httpResult' = "redirect"
       ELSE /\ httpResult' = "error: Webhook already exists."
            /\ UNCHANGED webhooks
    /\ UNCHANGED <<storeVars, ruleVars, runVars, timerVars, createVars, renderVars>>

\* webhooks.remove(webhook) for the first webhook whose url is clean_webhook_url
RemoveAt(hooks, i) == SubSeq(hooks, 1, i - 1) \o SubSeq(hooks, i + 1, Len(hooks))

\* POST /delete_webhook
delete_webhook(webhook_url) ==
    /\ cfPc = "idle"
    /\ LET hits == {i \in 1..Len(webhooks) : webhooks[i].url = Strip(webhook_url)}
       IN IF hits # {}
          THEN /\ webhooks' = RemoveAt(webhooks, CHOOSE i \in hits : \A j \in hits : i <= j)
               /\ httpResult' = "redirect"
          ELSE /\ httpResult' = "error: Could not find webhook."
               /\ UNCHANGED webhooks
    /\ UNCHANGED <<storeVars, ruleVars, runVars, timerVars, createVars, renderVars>>

\* form values of the registry requests
NameInputs == {<<"a">>, <<" ", "a">>, <<"b">>, <<"c", " ">>}
UrlInputs == {<<"u">>, <<"v", " ">>}

(***************************************************************************)
(* main.py: create_feed and remove_feed.  The handlers are coroutines      *)
(* without an await: the event loop runs one request at a time (the guard  *)
(* cfPc = "idle" of every other handler), while the functions of feeds.py  *)
(* run on another thread and interleave with the steps of create_feed.     *)
(***************************************************************************)
\* the url of the first hook of the `webhooks` tag whose name is
\* webhook_dropdown, "" when there is none
RECURSIVE HookUrlFor(_, _)
HookUrlFor(hooks, webhook_dropdown) ==
    IF hooks = <<>> THEN <<>>
    ELSE IF Head(hooks).name = webhook_dropdown THEN Head(hooks).url
    ELSE HookUrlFor(Tail(hooks), webhook_dropdown)

\* POST /add: reader.add_feed(clean_feed_url); a feed the store already
\* holds makes add_feed raise FeedExistsError, which leaves the handler
CreateFeedAdd(feed_url, webhook_dropdown) ==
    /\ cfPc = "idle"
    /\ IF feed_url \in feeds
       THEN /\ httpResult' = "error: FeedExistsError"
            /\ UNCHANGED <<feeds, createVars>>
       ELSE /\ feeds' = feeds \cup {feed_url}
            /\ cfPc' = "update"
            /\ cfUrl' = feed_url
            /\ cfHook' = webhook_dropdown
            /\ UNCHANGED <<cfQueue, cfOld, httpResult>>
    /\ UNCHANGED <<stored, read, webhookTag, webhooks>>
    /\ UNCHANGED <<ruleVars, runVars, timerVars, renderVars>>

\* create_feed: reader.update_feed(clean_feed_url) returns
CreateFeedUpdate ==
    /\ cfPc = "update"
    /\ \E new \in SUBSET Fetchable({cfUrl}) :
          /\ stored' = stored \cup new
          /\ cfOld' = cfOld \cup new
    /\ cfPc' = "get_entries"
    /\ UNCHANGED <<feeds, read, webhookTag, cfUrl, cfHook, cfQueue>>
    /\ UNCHANGED <<ruleVars, hookVars, runVars, timerVars, renderVars>>

\* create_feed: reader.update_feed(clean_feed_url) raises; nothing in the
\* handler catches it and the feed stays in the store
CreateFeedUpdateRaises(err) ==
    /\ cfPc = "update"
    /\ err \in {"ParseError", "StorageError"}
    /\ httpResult' = err
    /\ cfPc' = "idle"
    /\ cfUrl' = Nothing
    /\ cfHook' = None
    /\ UNCHANGED <<cfQueue, cfOld, webhooks>>
    /\ UNCHANGED <<storeVars, ruleVars, runVars, timerVars, renderVars>>

\* create_feed: entries = reader.get_entries(feed=clean_feed_url, read=False)
CreateFeedGetEntries ==
    /\ cfPc = "get_entries"
    /\ cfQueue' = InOrder(UnreadEntries(stored, read, cfUrl))
    /\ cfPc' = "set_read"
    /\ UNCHANGED <<cfUrl, cfHook, cfOld>>
    /\ UNCHANGED <<storeVars, ruleVars, hookVars, runVars, timerVars, renderVars>>

\* create_feed: for entry in entries: reader.set_entry_read(entry, True)
CreateFeedSetRead ==
    /\ cfPc = "set_read"
    /\ IF cfQueue = <<>>
       THEN /\ cfPc' = "set_tag"
            /\ UNCHANGED <<read, cfQueue>>
       ELSE /\ read' = [read EXCEPT ![Head(cfQueue)] = TRUE]
            /\ cfQueue' = Tail(cfQueue)
            /\ UNCHANGED cfPc
    /\ UNCHANGED <<feeds, stored, webhookTag, cfUrl, cfHook, cfOld>>
    /\ UNCHANGED <<ruleVars, hookVars, runVars, timerVars, renderVars>>

\* create_feed: the lookup of webhook_dropdown in the `webhooks` tag, then
\* `if not webhook_url: return {"error": ...}`, else
\* reader.set_tag(clean_feed_url, "webhook", webhook_url) and the redirect
CreateFeedSetTag ==
    /\ cfPc = "set_tag"
    /\ LET webhook_url == HookUrlFor(webhooks, cfHook)
       IN IF webhook_url = <<>>
          THEN /\ httpResult' = "error: No webhook URL found."
               /\ UNCHANGED webhookTag
          ELSE /\ webhookTag' = [webhookTag EXCEPT ![cfUrl] = webhook_url]
               /\ httpResult' = "redirect"
    /\ cfPc' = "idle"
    /\ cfUrl' = Nothing
    /\ cfHook' = None
    /\ UNCHANGED <<feeds, stored, read, webhooks, cfQueue, cfOld>>
    /\ UNCHANGED <<ruleVars, runVars, timerVars, renderVars>>

\* POST /remove: reader.delete_feed(feed_url) drops the feed with its
\* entries and tags, or raises FeedNotFoundError
remove_feed(feed_url) ==
    /\ cfPc = "idle"
    /\ IF feed_url \in feeds
       THEN /\ feeds' = feeds \ {feed_url}
            /\ stored' = {e \in stored : FeedOf(e) # feed_url}
            /\ read' = [e \in EntryIds |-> read[e] /\ FeedOf(e) # feed_url]
            /\ webhookTag' = [webhookTag EXCEPT ![feed_url] = NoTag]
            /\ ruleTags' = [ruleTags EXCEPT ![feed_url] = [k \in RuleKeys |-> NoTag]]
            /\ cfOld' = {e \in cfOld : FeedOf(e) # feed_url}
            /\ httpResult' = "redirect"
       ELSE /\ httpResult' = "error: FeedNotFoundError"
            /\ UNCHANGED <<storeVars, ruleVars, cfOld>>
    /\ UNCHANGED <<webhooks, cfPc, cfUrl, cfHook, cfQueue>>
    /\ UNCHANGED <<runVars, timerVars, renderVars>>

\* the name chosen in the dropdown of the add-feed form
DropdownInputs == {<<"a">>, <<"b">>}

(***************************************************************************)
(* custom_message.py: the values the renderer handles.  A Python value is  *)
(* a record with its type; a string carries its characters, an int its     *)
(* number.                                                                 *)
(***************************************************************************)
PyStr(s) == [type |-> "str", chars |-> s, num |-> 0]
PyInt(n) == [type |-> "int", chars |-> <<>>, num |-> n]
PyNone == [type |-> "NoneType", chars |-> <<>>, num |-> 0]
\* a datetime or an ExceptionInfo: neither a string nor None
PyObject == [type |-> "object", chars |-> <<>>, num |-> 0]

IsStr(v) == v.type = "str"

\* the truth value of `if v:` / `v or ...`
Truthy(v) == CASE v.type = "str" -> v.chars # <<>>
               [] v.type = "int" -> v.num # 0
               [] v.type = "NoneType" -> FALSE
               [] OTHER -> TRUE

\* str(b) of a bool
StrOfBool(b) == IF b THEN <<"T", "r", "u", "e">> ELSE <<"F", "a", "l", "s", "e">>

StartsWith(s, p) == Len(s) >= Len(p) /\ SubSeq(s, 1, Len(p)) = p

\* str.replace(old, new) for a non-empty old: every occurrence, left to
\* right, without overlap
RECURSIVE Replace(_, _, _)
Replace(s, old, new) ==
    IF Len(s) < Len(old) THEN s
    ELSE IF StartsWith(s, old)
         THEN new \o Replace(SubSeq(s, Len(old) + 1, Len(s)), old, new)
         ELSE <<Head(s)>> \o Replace(Tail(s), old, new)

\* s contains old
RECURSIVE Occurs(_, _)
Occurs(s, old) ==
    IF Len(s) < Len(old) THEN FALSE
    ELSE StartsWith(s, old) \/ Occurs(Tail(s), old)

(***************************************************************************)
(* custom_message.py: the token catalogue.                                 *)
(***************************************************************************)
\* the names between the braces of the tokens
TagName ==
    [feed_author |-> <<"f", "e", "e", "d", "_", "a", "u", "t", "h", "o", "r">>,
     feed_added |-> <<"f", "e", "e", "d", "_", "a", "d", "d", "e", "d">>,
     feed_last_exception |-> <<"f", "e", "e", "d", "_", "l", "a", "s", "t", "_", "e", "x", "c", "e", "p", "t", "i", "o", "n">>,
     feed_last_updated |-> <<"f", "e", "e", "d", "_", "l", "a", "s", "t", "_", "u", "p", "d", "a", "t", "e", "d">>,
     feed_link |-> <<"f", "e", "e", "d", "_", "l", "i", "n", "k">>,
     feed_subtitle |-> <<"f", "e", "e", "d", "_", "s", "u", "b", "t", "i", "t", "l", "e">>,
     feed_title |-> <<"f", "e", "e", "d", "_", "t", "i", "t", "l", "e">>,
     feed_updated |-> <<"f", "e", "e", "d", "_", "u", "p", "d", "a", "t", "e", "d">>,
     feed_updates_enabled |-> <<"f", "e", "e", "d", "_", "u", "p", "d", "a", "t", "e", "s", "_", "e", "n", "a", "b", "l", "e", "d">>,
     feed_url |-> <<"f", "e", "e", "d", "_", "u", "r", "l">>,
     feed_user_title |-> <<"f", "e", "e", "d", "_", "u", "s", "e", "r", "_", "t", "i", "t", "l", "e">>,
     feed_version |-> <<"f", "e", "e", "d", "_", "v", "e", "r", "s", "i", "o", "n">>,
     entry_added |-> <<"e", "n", "t", "r", "y", "_", "a", "d", "d", "e", "d">>,
     entry_author |-> <<"e", "n", "t", "r", "y", "_", "a", "u", "t", "h", "o", "r">>,
     entry_content |-> <<"e", "n", "t", "r", "y", "_", "c", "o", "n", "t", "e", "n", "t">>,
     entry_content_raw |-> <<"e", "n", "t", "r", "y", "_", "c", "o", "n", "t", "e", "n", "t", "_", "r", "a", "w">>,
     entry_id |-> <<"e", "n", "t", "r", "y", "_", "i", "d">>,
     entry_important |-> <<"e", "n", "t", "r", "y", "_", "i", "m", "p", "o", "r", "t", "a", "n", "t">>,
     entry_link |-> <<"e", "n", "t", "r", "y", "_", "l", "i", "n", "k">>,
     entry_published |-> <<"e", "n", "t", "r", "y", "_", "p", "u", "b", "l", "i", "s", "h", "e", "d">>,
     entry_read |-> <<"e", "n", "t", "r", "y", "_", "r", "e", "a", "d">>,
     entry_read_modified |-> <<"e", "n", "t", "r", "y", "_", "r", "e", "a", "d", "_", "m", "o", "d", "i", "f", "i", "e", "d">>,
     entry_summary |-> <<"e", "n", "t", "r", "y", "_", "s", "u", "m", "m", "a", "r", "y">>,
     entry_summary_raw |-> <<"e", "n", "t", "r", "y", "_", "s", "u", "m", "m", "a", "r", "y", "_", "r", "a", "w">>,
     entry_text |-> <<"e", "n", "t", "r", "y", "_", "t", "e", "x", "t">>,
     entry_title |-> <<"e", "n", "t", "r", "y", "_", "t", "i", "t", "l", "e">>,
     entry_updated |-> <<"e", "n", "t", "r", "y", "_", "u", "p", "d", "a", "t", "e", "d">>,
     image_1 |-> <<"i", "m", "a", "g", "e", "_", "1">>]

\* the token "{{name}}"
Token(name) == <<"{", "{">> \o TagName[name] \o <<"}", "}">>

\* the keys of list_of_replacements of replace_tags_in_text_message, in order
TextCatalogue ==
    <<"feed_author", "feed_added", "feed_last_exception",
      "feed_last_updated", "feed_link", "feed_subtitle", "feed_title",
      "feed_updated", "feed_updates_enabled", "feed_url",
      "feed_user_title", "feed_version", "entry_added", "entry_author",
      "entry_content", "entry_content_raw", "entry_id", "entry_important",
      "entry_link", "entry_published", "entry_read", "entry_read_modified",
      "entry_summary", "entry_summary_raw", "entry_text", "entry_title",
      "entry_updated", "image_1">>

\* the keys of list_of_replacements of replace_tags_in_embed, in order
EmbedCatalogue ==
    <<"feed_author", "feed_added", "feed_last_exception",
      "feed_last_updated", "feed_link", "feed_subtitle", "feed_title",
      "feed_updated", "feed_updates_enabled", "feed_url",
      "feed_user_title", "feed_version", "entry_added", "entry_author",
      "entry_content", "entry_content_raw", "entry_id", "entry_important",
      "entry_link", "entry_published", "entry_read", "entry_read_modified",
      "entry_summary", "entry_summary_raw", "entry_title", "entry_text",
      "entry_updated", "image_1">>

\* the two-character escape `\n` and the newline it is turned into
NewlineEscape == <<"\\", "n">>
Newline == <<"\n">>

(***************************************************************************)
(* custom_message.py: entries and feeds as the renderer sees them.  The    *)
(* markup of a summary or of a content item is the sequence of its nodes,  *)
(* text and <img> elements, as BeautifulSoup parses it; an attribute that  *)
(* the element does not have is PyNone.                                    *)
(***************************************************************************)
TextNode(t) == [tag |-> "text", text |-> t, src |-> PyNone, alt |-> PyNone]
ImgNode(src, alt) == [tag |-> "img", text |-> <<>>, src |-> src, alt |-> alt]

\* the source text of an attribute and of a node
AttrSource(name, v) ==
    IF IsStr(v) THEN <<" ">> \o name \o <<"=", "\"">> \o v.chars \o <<"\"">> ELSE <<>>
NodeSource(n) ==
    IF n.tag = "text" THEN n.text
    ELSE <<"<", "i", "m", "g">> \o AttrSource(<<"s", "r", "c">>, n.src) \o AttrSource(<<"a", "l", "t">>, n.alt) \o <<">">>

\* the string that holds the markup
RECURSIVE Raw(_)
Raw(nodes) == IF nodes = <<>> THEN <<>> ELSE NodeSource(Head(nodes)) \o Raw(Tail(nodes))

\* entry.summary: None, or markup
NoMarkup == [none |-> TRUE, nodes |-> <<>>]
Markup(nodes) == [none |-> FALSE, nodes |-> nodes]
MarkupStr(m) == IF m.none THEN PyNone ELSE PyStr(Raw(m.nodes))

\* the feed that is rendered
RenderFeed ==
    [author |-> PyNone, added |-> PyObject, last_exception |-> PyNone,
     last_updated |-> PyObject, link |-> PyStr(<<"k">>), subtitle |-> PyNone,
     title |-> PyStr(<<"F">>), updated |-> PyNone, updates_enabled |-> TRUE,
     url |-> PyStr(<<"u">>), user_title |-> PyNone, version |-> PyStr(<<"v">>)]

\* what the entries below have in common
BaseEntry ==
    [added |-> PyObject, author |-> PyNone, content |-> <<>>, id |-> PyStr(<<"i">>),
     important |-> FALSE, link |-> PyStr(<<"l">>), published |-> PyNone, read |-> FALSE,
     read_modified |-> PyNone, summary |-> NoMarkup, title |-> PyStr(<<"t">>),
     updated |-> PyObject]

\* the entries that are rendered: 1 summary with text and an image, 2 no
\* title, no summary, content with an image, 3 image in the summary and
\* content without image, 4 an image in both, 5 an <img> without src,
\* 6 a title that spells a token, 7 neither summary nor content
RenderEntries ==
    << [BaseEntry EXCEPT !.summary = Markup(<<TextNode(<<"h">>), ImgNode(PyStr(<<"s">>), PyNone)>>)],
       [BaseEntry EXCEPT !.title = PyNone,
                         !.content = <<Markup(<<ImgNode(PyStr(<<"c">>), PyStr(<<"A">>)),
                                                TextNode(<<"b">>)>>)>>],
       [BaseEntry EXCEPT !.summary = Markup(<<ImgNode(PyStr(<<"s">>), PyNone)>>),
                         !.content = <<Markup(<<TextNode(<<"b">>)>>)>>],
       [BaseEntry EXCEPT !.summary = Markup(<<ImgNode(PyStr(<<"s">>), PyNone)>>),
                         !.content = <<Markup(<<ImgNode(PyStr(<<"c">>), PyNone)>>)>>],
       [BaseEntry EXCEPT !.summary = Markup(<<TextNode(<<"h">>), ImgNode(PyNone, PyStr(<<"A">>))>>)],
       [BaseEntry EXCEPT !.title = PyStr(Token("entry_text")),
                         !.summary = Markup(<<TextNode(<<"h">>)>>)],
       BaseEntry >>

RenderEntryIds == 1..Len(RenderEntries)

(***************************************************************************)
(* markdown.py is not part of the sources at hand: convert_html_to_md      *)
(* follows the specification's text-transform collaborator, markup in,     *)
(* plain text out.                                                         *)
(***************************************************************************)
RECURSIVE convert_html_to_md(_)
convert_html_to_md(nodes) ==
    IF nodes = <<>> THEN <<>>
    ELSE (IF Head(nodes).tag = "text" THEN Head(nodes).text ELSE <<>>)
         \o convert_html_to_md(Tail(nodes))

(***************************************************************************)
(* custom_message.py: get_images_from_entry.                               *)
(***************************************************************************)
\* soup.find_all("img")
FindImages(nodes) == SelectSeq(nodes, LAMBDA n : n.tag = "img")

\* what return_image and get_images_from_entry return: a list of (src, alt)
\* pairs; `raised` names the exception when they raise instead, `none` is
\* set when they return None
ImagesList(l) == [raised |-> Nothing, none |-> FALSE, list |-> l]

\* return_image(found_images): the pair of the first <img>; image["src"]
\* raises KeyError when the element has no src; the loop body does not run,
\* and the function returns None, when there is no <img>
return_image(nodes) ==
    LET images == FindImages(nodes)
    IN IF images = <<>> THEN [ImagesList(<<>>) EXCEPT !.none = TRUE]
       ELSE LET image == images[1]
            IN IF image.src = PyNone THEN [ImagesList(<<>>) EXCEPT !.raised = "KeyError"]
               ELSE ImagesList(<<[src |-> image.src.chars,
                                  alt |-> IF Truthy(image.alt) THEN image.alt.chars
                                          ELSE <<"L", "i", "n", "k", " ", "t", "o", " ", "i", "m", "a", "g", "e">>]>>)

\* get_images_from_entry(entry)
get_images_from_entry(entry) ==
    LET fromSummary == IF Truthy(MarkupStr(entry.summary))
                       THEN return_image(entry.summary.nodes) ELSE ImagesList(<<>>)
    IN IF fromSummary.raised # Nothing THEN fromSummary
       ELSE IF entry.content # <<>> THEN return_image(entry.content[1].nodes)
       ELSE fromSummary

(***************************************************************************)
(* custom_message.py: try_to_replace and replace_tags_in_text_message.     *)
(***************************************************************************)
\* try_to_replace: custom_message.replace(template, replace_with); a
\* custom_message without replace (AttributeError) or a replace_with that is
\* not a string (TypeError) gives custom_message back as it is
try_to_replace(custom_message, template, replace_with) ==
    IF IsStr(custom_message) /\ IsStr(replace_with)
    THEN PyStr(Replace(custom_message.chars, template, replace_with.chars))
    ELSE custom_message

\* the values derived from the entry before the replacements
ConvertedSummary(entry) ==
    IF Truthy(MarkupStr(entry.summary)) THEN convert_html_to_md(entry.summary.nodes)
    ELSE <<>>
ConvertedContent(entry) ==
    IF entry.content # <<>> THEN convert_html_to_md(entry.content[Len(entry.content)].nodes)
    ELSE <<>>
EntryText(entry) ==
    IF ConvertedContent(entry) # <<>> THEN ConvertedContent(entry)
    ELSE ConvertedSummary(entry)
FirstImage(images) ==
    IF ~images.none /\ images.list # <<>> THEN images.list[1].src ELSE <<>>

\* the values of list_of_replacements, by the name of their token
Replacements(feed, entry, images) ==
    [feed_author |-> feed.author,
     feed_added |-> feed.added,
     feed_last_exception |-> feed.last_exception,
     feed_last_updated |-> feed.last_updated,
     feed_link |-> feed.link,
     feed_subtitle |-> feed.subtitle,
     feed_title |-> feed.title,
     feed_updated |-> feed.updated,
     feed_updates_enabled |-> PyStr(StrOfBool(feed.updates_enabled)),
     feed_url |-> feed.url,
     feed_user_title |-> feed.user_title,
     feed_version |-> feed.version,
     entry_added |-> entry.added,
     entry_author |-> entry.author,
     entry_content |-> PyStr(ConvertedContent(entry)),
     entry_content_raw |-> IF entry.content # <<>> THEN PyStr(Raw(entry.content[1].nodes))
                           ELSE PyStr(<<>>),
     entry_id |-> entry.id,
     entry_important |-> PyStr(StrOfBool(entry.important)),
     entry_link |-> entry.link,
     entry_published |-> entry.published,
     entry_read |-> PyStr(StrOfBool(entry.read)),
     entry_read_modified |-> entry.read_modified,
     entry_summary |-> PyStr(ConvertedSummary(entry)),
     entry_summary_raw |-> IF Truthy(MarkupStr(entry.summary)) THEN MarkupStr(entry.summary)
                           ELSE PyStr(<<>>),
     entry_text |-> PyStr(EntryText(entry)),
     entry_title |-> entry.title,
     entry_updated |-> entry.updated,
     image_1 |-> PyStr(FirstImage(images))]

\* for replacement in list_of_replacements: ... try_to_replace(...), from
\* the i-th replacement of the catalogue on
RECURSIVE ReplaceAll(_, _, _, _)
ReplaceAll(custom_message, catalogue, values, i) ==
    IF i > Len(catalogue) THEN custom_message
    ELSE ReplaceAll(try_to_replace(custom_message, Token(catalogue[i]), values[catalogue[i]]),
                    catalogue, values, i + 1)

\* get_custom_message: str(get_tag(feed, "custom_message")), "" without tag
get_custom_message(tag) == IF tag = NoTag THEN <<>> ELSE tag

\* variant: the `\n` escapes are left as they are
AfterReplacements_KeepEscapes(custom_message) == custom_message

\* return custom_message.replace("\\n", "\n")
AfterReplacements(custom_message) == Replace(custom_message, NewlineEscape, Newline)

\* the body of replace_tags_in_text_message for a given custom_message
RenderMessage(custom_message, feed, entry) ==
    LET images == get_images_from_entry(entry)
    IN IF images.raised # Nothing THEN [raised |-> images.raised, text |-> <<>>]
       ELSE [raised |-> Nothing,
             text |-> AfterReplacements(
                          ReplaceAll(PyStr(custom_message), TextCatalogue,
                                     Replacements(feed, entry, images), 1).chars)]

\* replace_tags_in_text_message(feed, entry)
replace_tags_in_text_message(tag, feed, entry) ==
    RenderMessage(get_custom_message(tag), feed, entry)

(***************************************************************************)
(* custom_message.py: save_embed, get_embed, get_embed_data, with          *)
(* json.dumps and json.loads on the text of the `embed` tag.               *)
(***************************************************************************)
\* the fields of CustomEmbed in the order of save_embed's dict
EmbedFields ==
    <<"title", "description", "color", "author_name", "author_url",
      "author_icon_url", "image_url", "thumbnail_url", "footer_text",
      "footer_icon_url">>
EmbedStringFields == {EmbedFields[i] : i \in 1..Len(EmbedFields)} \ {"color"}

\* the keys of the dict as JSON strings
EmbedKey ==
    [title |-> <<"t", "i", "t", "l", "e">>,
     description |-> <<"d", "e", "s", "c", "r", "i", "p", "t", "i", "o", "n">>,
     color |-> <<"c", "o", "l", "o", "r">>,
     author_name |-> <<"a", "u", "t", "h", "o", "r", "_", "n", "a", "m", "e">>,
     author_url |-> <<"a", "u", "t", "h", "o", "r", "_", "u", "r", "l">>,
     author_icon_url |-> <<"a", "u", "t", "h", "o", "r", "_", "i", "c", "o", "n", "_", "u", "r", "l">>,
     image_url |-> <<"i", "m", "a", "g", "e", "_", "u", "r", "l">>,
     thumbnail_url |-> <<"t", "h", "u", "m", "b", "n", "a", "i", "l", "_", "u", "r", "l">>,
     footer_text |-> <<"f", "o", "o", "t", "e", "r", "_", "t", "e", "x", "t">>,
     footer_icon_url |-> <<"f", "o", "o", "t", "e", "r", "_", "i", "c", "o", "n", "_", "u", "r", "l">>]

Digits == <<"0", "1", "2", "3", "4", "5", "6", "7", "8", "9">>
DigitValue(c) == (CHOOSE i \in 1..10 : Digits[i] = c) - 1
IsDigit(c) == \E i \in 1..10 : Digits[i] = c

\* str(n) for n >= 0
RECURSIVE IntToChars(_)
IntToChars(n) ==
    IF n < 10 THEN <<Digits[n + 1]>> ELSE IntToChars(n \div 10) \o <<Digits[(n % 10) + 1]>>

\* json.dumps of the characters of a string: quote, backslash and newline
\* are escaped
RECURSIVE JsonEscape(_)
JsonEscape(s) ==
    IF s = <<>> THEN <<>>
    ELSE (CASE Head(s) = "\"" -> <<"\\", "\"">>
            [] Head(s) = "\\" -> <<"\\", "\\">>
            [] Head(s) = "\n" -> <<"\\", "n">>
            [] OTHER -> <<Head(s)>>) \o JsonEscape(Tail(s))

\* json.dumps of a value
JsonValue(v) ==
    CASE v.type = "str" -> <<"\"">> \o JsonEscape(v.chars) \o <<"\"">>
      [] v.type = "int" -> IntToChars(v.num)
      [] OTHER -> <<"n", "u", "l", "l">>

\* json.dumps of the members of embed_dict from the i-th field on
RECURSIVE JsonMembers(_, _)
JsonMembers(embed, i) ==
    IF i > Len(EmbedFields) THEN <<>>
    ELSE (IF i > 1 THEN <<",", " ">> ELSE <<>>)
         \o <<"\"">> \o EmbedKey[EmbedFields[i]] \o <<"\"">> \o <<":", " ">>
         \o JsonValue(embed[EmbedFields[i]])
         \o JsonMembers(embed, i + 1)

\* json.dumps(embed_dict)
json_dumps(embed) == <<"{">> \o JsonMembers(embed, 1) \o <<"}">>

\* the character an escape sequence stands for
JsonUnescape(c) == IF c = "n" THEN "\n" ELSE c

\* json.loads: the string that starts after the opening quote at s[i - 1]
RECURSIVE ScanString(_, _, _)
ScanString(s, i, acc) ==
    IF s[i] = "\"" THEN [val |-> acc, next |-> i + 1]
    ELSE IF s[i] = "\\" THEN ScanString(s, i + 2, Append(acc, JsonUnescape(s[i + 1])))
    ELSE ScanString(s, i + 1, Append(acc, s[i]))

\* json.loads: the number that starts at s[i]
RECURSIVE ScanInt(_, _, _)
ScanInt(s, i, acc) ==
    IF i <= Len(s) /\ IsDigit(s[i]) THEN ScanInt(s, i + 1, acc * 10 + DigitValue(s[i]))
    ELSE [val |-> acc, next |-> i]

\* json.loads: the value that starts at s[i]: a string, null or a number
ScanValue(s, i) ==
    IF s[i] = "\"" THEN LET r == ScanString(s, i + 1, <<>>)
                        IN [val |-> PyStr(r.val), next |-> r.next]
    ELSE IF s[i] = "n" THEN [val |-> PyNone, next |-> i + 4]
    ELSE LET r == ScanInt(s, i, 0) IN [val |-> PyInt(r.val), next |-> r.next]

\* json.loads: the members of an object from s[i] on, as (key, value) pairs
RECURSIVE ScanMembers(_, _, _)
ScanMembers(s, i, acc) ==
    IF s[i] = "}" THEN acc
    ELSE IF s[i] \in {",", " "} THEN ScanMembers(s, i + 1, acc)
    ELSE LET k == ScanString(s, i + 1, <<>>)
             v == ScanValue(s, k.next + 2)
         IN ScanMembers(s, v.next, Append(acc, [key |-> k.val, value |-> v.val]))

\* json.loads(embed) of the text of an object
json_loads(s) == ScanMembers(s, 2, <<>>)

\* embed_data.get(key, default)
RECURSIVE DictGet(_, _, _)
DictGet(pairs, key, default) ==
    IF pairs = <<>> THEN default
    ELSE IF pairs[Len(pairs)].key = key THEN pairs[Len(pairs)].value
    ELSE DictGet(SubSeq(pairs, 1, Len(pairs) - 1), key, default)

\* the default colour of an embed
DefaultColor == 32896

\* the CustomEmbed that get_embed returns for a feed without `embed` tag
DefaultEmbed ==
    [f \in {EmbedFields[i] : i \in 1..Len(EmbedFields)} |->
        IF f = "color" THEN PyInt(DefaultColor) ELSE PyStr(<<>>)]

\* variant: the footer text is read from the key of the footer icon
get_embed_data_WrongKey(embed_data) ==
    [f \in {EmbedFields[i] : i \in 1..Len(EmbedFields)} |->
        DictGet(embed_data, EmbedKey[IF f = "footer_text" THEN "footer_icon_url" ELSE f],
                DefaultEmbed[f])]

\* get_embed_data(embed_data)
get_embed_data(embed_data) ==
    [f \in {EmbedFields[i] : i \in 1..Len(EmbedFields)} |->
        DictGet(embed_data, EmbedKey[f], DefaultEmbed[f])]

\* get_embed: the tag, "" when it is not set; if embed: json.loads
get_embed(tag) ==
    IF tag = NoTag \/ tag = <<>> THEN DefaultEmbed
    ELSE get_embed_data(json_loads(tag))

\* the tag that save_embed(embed) sets
save_embed(embed) == json_dumps(embed)

(***************************************************************************)
(* custom_message.py: replace_tags_in_embed.                               *)
(***************************************************************************)
\* the body of replace_tags_in_embed for a given embed: every replacement
\* of the catalogue is applied to each of the nine string fields; the
\* colour is not touched
RenderEmbed(embed, feed, entry) ==
    LET images == get_images_from_entry(entry)
    IN IF images.raised # Nothing THEN [raised |-> images.raised, embed |-> embed]
       ELSE [raised |-> Nothing,
             embed |-> [f \in DOMAIN embed |->
                           IF f = "color" THEN embed[f]
                           ELSE ReplaceAll(embed[f], EmbedCatalogue,
                                           Replacements(feed, entry, images), 1)]]

\* replace_tags_in_embed(feed, entry)
replace_tags_in_embed(tag, feed, entry) == RenderEmbed(get_embed(tag), feed, entry)

(***************************************************************************)
(* The renderer's inputs and calls.                                        *)
(***************************************************************************)
\* what templates are made of: a plain character, the newline escape,
\* tokens, an opening brace
Pieces ==
    {<<"x">>, NewlineEscape, Token("entry_title"), Token("entry_text"),
     Token("feed_author"), Token("image_1"), <<"{">>}

\* the concatenations of at most n pieces
RECURSIVE TemplatesUpTo(_)
TemplatesUpTo(n) ==
    IF n = 0 THEN {<<>>}
    ELSE LET shorter == TemplatesUpTo(n - 1)
         IN shorter \cup {t \o p : t \in shorter, p \in Pieces}

\* the values of the `custom_message` tag
Templates == TemplatesUpTo(MaxPieces)

\* the texts of the string fields of the embeds that are saved
EmbedTexts ==
    {<<>>, <<"x">> \o NewlineEscape, Token("entry_title") \o Token("entry_text"),
     Token("feed_author"), <<"a", "\"", "\\", "\\", "b">> \o Newline}

EmbedColors == {0, DefaultColor, 16777215}

\* the embeds that are saved: the three visible texts and the colour vary,
\* or every field has a value of its own
EmbedInputs ==
    {[DefaultEmbed EXCEPT !.title = PyStr(t), !.description = PyStr(t),
                          !.footer_text = PyStr(t), !.color = PyInt(c)] :
        t \in EmbedTexts, c \in EmbedColors}
    \cup {[f \in DOMAIN DefaultEmbed |->
              IF f = "color" THEN PyInt(7) ELSE PyStr(<<"e">> \o EmbedKey[f])]}

\* an `embed` tag that was not written by save_embed: a number where a
\* string is expected, the other keys missing
HandWrittenEmbedTag ==
    <<"{", "\"">> \o EmbedKey.title \o <<"\"", ":", " ", "5", ",", " ", "\"">>
    \o EmbedKey.description \o <<"\"", ":", " ", "\"">>
    \o Token("entry_title") \o <<"\"", "}">>

NoResult == [raised |-> Nothing, text |-> <<>>, list |-> <<>>, embed |-> <<>>]

\* a call of replace_tags_in_text_message(feed, entry)
Call_replace_tags_in_text_message(e) ==
    /\ renderCall' = [func |-> "replace_tags_in_text_message", entry |-> e]
    /\ LET r == replace_tags_in_text_message(customMessage, RenderFeed, RenderEntries[e])
       IN renderResult' = [NoResult EXCEPT !.raised = r.raised, !.text = r.text]
    /\ UNCHANGED <<customMessage, embedTag>>
    /\ UNCHANGED <<storeVars, ruleVars, hookVars, runVars, timerVars, createVars>>

\* a call of get_images_from_entry(entry)
Call_get_images_from_entry(e) ==
    /\ renderCall' = [func |-> "get_images_from_entry", entry |-> e]
    /\ LET r == get_images_from_entry(RenderEntries[e])
       IN renderResult' = [NoResult EXCEPT !.raised = r.raised, !.list = r.list,
                                           !.text = IF r.none THEN <<"N", "o", "n", "e">> ELSE <<>>]
    /\ UNCHANGED <<customMessage, embedTag>>
    /\ UNCHANGED <<storeVars, ruleVars, hookVars, runVars, timerVars, createVars>>

\* a call of save_embed(custom_reader, feed, embed)
Call_save_embed(embed) ==
    /\ embedTag' = save_embed(embed)
    /\ renderCall' = [func |-> "save_embed", entry |-> 0]
    /\ renderResult' = NoResult
    /\ UNCHANGED customMessage
    /\ UNCHANGED <<storeVars, ruleVars, hookVars, runVars, timerVars, createVars>>

\* a call of get_embed(custom_reader, feed)
Call_get_embed ==
    /\ renderCall' = [func |-> "get_embed", entry |-> 0]
    /\ renderResult' = [NoResult EXCEPT !.embed = get_embed(embedTag)]
    /\ UNCHANGED <<customMessage, embedTag>>
    /\ UNCHANGED <<storeVars, ruleVars, hookVars, runVars, timerVars, createVars>>

\* a call of replace_tags_in_embed(feed, entry)
Call_replace_tags_in_embed(e) ==
    /\ renderCall' = [func |-> "replace_tags_in_embed", entry |-> e]
    /\ LET r == replace_tags_in_embed(embedTag, RenderFeed, RenderEntries[e])
       IN renderResult' = [NoResult EXCEPT !.raised = r.raised, !.embed = r.embed]
    /\ UNCHANGED <<customMessage, embedTag>>
    /\ UNCHANGED <<storeVars, ruleVars, hookVars, runVars, timerVars, createVars>>

(***************************************************************************)
(* Specifications.                                                         *)
(***************************************************************************)
Responses == {"ok", "notok"}

PipelineNext ==
    \/ CheckFeedsStart
    \/ \E url \in FeedUrls : CheckFeedStart(url)
    \/ UpdateOk
    \/ \E err \in FeedStoreErrors : UpdateRaises(err)
    \/ Loop
    \/ MarkRead
    \/ GetWebhook
    \/ \E r \in Responses : Post(r)
    \/ HandleResponse
    \/ RunEnd

RuleNext ==
    \/ \E f \in FeedUrls, t \in WhiteTitleInputs, s \in WhiteSummaryInputs,
             c \in WhiteContentInputs :
          set_whitelist(f, t, s, c)
    \/ \E f \in FeedUrls, t \in BlackTitleInputs, s \in BlackSummaryInputs,
             c \in BlackContentInputs :
          set_blacklist(f, t, s, c)

HookNext ==
    \/ \E n \in NameInputs, u \in UrlInputs : add_webhook(n, u)
    \/ \E u \in UrlInputs : delete_webhook(u)

\* the pipeline and the rule requests
Next == PipelineNext \/ RuleNext

Spec == Init /\ [][Next]_vars

\* main.py on its own: the webhook registry requests and the interval job
AppNext == HookNext \/ Startup \/ TimerFire

AppSpec == Init /\ [][AppNext]_vars

CreateNext ==
    \/ \E f \in FeedUrls, d \in DropdownInputs : CreateFeedAdd(f, d)
    \/ CreateFeedUpdate
    \/ \E err \in FeedStoreErrors : CreateFeedUpdateRaises(err)
    \/ CreateFeedGetEntries
    \/ CreateFeedSetRead
    \/ CreateFeedSetTag

\* a fresh installation: no feed in the store
InitEmpty == Init /\ feeds = {}

\* a fresh installation on which one webhook has been registered
InitRegistered ==
    /\ InitCommon
    /\ feeds = {}
    /\ webhookTag = [f \in FeedUrls |-> NoTag]
    /\ webhooks = <<[name |-> <<"a">>, url |-> WebhookUrl]>>
    /\ customMessage = NoTag
    /\ embedTag = NoTag

\* the feed and registry requests on a fresh installation
FeedNext == CreateNext \/ HookNext \/ (\E f \in FeedUrls : remove_feed(f))

FeedSpec == InitEmpty /\ [][FeedNext]_vars

\* create_feed on the event loop together with the functions of feeds.py on
\* the scheduler's thread
RaceNext == CreateNext \/ PipelineNext

RaceSpec == InitRegistered /\ [][RaceNext]_vars

\* the message renderer: a feed with any template as its custom message
RenderInit ==
    /\ InitCommon
    /\ feeds = {}
    /\ webhookTag = [f \in FeedUrls |-> NoTag]
    /\ webhooks = <<>>
    /\ customMessage \in Templates \cup {NoTag}
    /\ embedTag = NoTag

RenderNext ==
    \/ \E e \in RenderEntryIds : Call_replace_tags_in_text_message(e)
    \/ \E e \in RenderEntryIds : Call_get_images_from_entry(e)

RenderSpec == RenderInit /\ [][RenderNext]_vars

\* the embed functions: a feed without `embed` tag or with one that was
\* not written by save_embed
EmbedInit ==
    /\ InitCommon
    /\ feeds = {}
    /\ webhookTag = [f \in FeedUrls |-> NoTag]
    /\ webhooks = <<>>
    /\ customMessage = NoTag
    /\ embedTag \in {NoTag, HandWrittenEmbedTag}

EmbedNext ==
    \/ \E embed \in EmbedInputs : Call_save_embed(embed)
    \/ Call_get_embed
    \/ \E e \in RenderEntryIds : Call_replace_tags_in_embed(e)

EmbedSpec == EmbedInit /\ [][EmbedNext]_vars

\* the pipeline alone, with the scheduling the liveness claim assumes: the
\* worker goes on with a run it has begun, whole-store runs are started
\* again and again, and refreshes and webhook answers do not fail for ever
LiveSpec ==
    /\ Init
    /\ [][PipelineNext]_vars
    /\ WF_vars(Loop)
    /\ WF_vars(MarkRead)
    /\ WF_vars(GetWebhook)
    /\ WF_vars(\E r \in Responses : Post(r))
    /\ WF_vars(HandleResponse)
    /\ WF_vars(RunEnd)
    /\ WF_vars(UpdateOk \/ \E err \in FeedStoreErrors : UpdateRaises(err))
    /\ SF_vars(CheckFeedsStart)
    /\ SF_vars(UpdateOk /\ runKind = "check_feeds")
    /\ SF_vars(Post("ok"))

(***************************************************************************)
(* Properties.                                                             *)
(***************************************************************************)
HasWebhook(f) == NonEmpty(webhookTag[f])

\* C1: when a send_to_discord call on an unread entry whose feed has a
\* webhook returns, the entry's read flag is false if the webhook response
\* was non-2xx and true if it was 2xx.
C1_ReadFlagFollowsResponse ==
    (pc = "returned" /\ HasWebhook(FeedOf(cur))) => read[cur] = (resp = "ok")

C1_Witness ==
    /\ pc = "returned"
    /\ resp = "notok"
    /\ ~read[cur]
    /\ \E e \in stored : lastOutcome[e] = "ok" /\ read[e]

\* C2: when the entry's feed has no `webhook` tag (absent or empty),
\* send_to_discord ends with NoWebhookFoundError and the entry's read flag
\* is false afterwards.
C2_NoWebhookLeavesUnread ==
    (pc = "raised" /\ called # {} /\ ~HasWebhook(FeedOf(cur)))
        => (exc = "NoWebhookFoundError" /\ ~read[cur])

\* C3: a no-webhook error on one entry aborts only that entry: when the run
\* is over, every unread entry returned for the run has been passed to
\* send_to_discord.
C3_OtherEntriesStillSent ==
    (pc \in {"done", "raised"} /\ exc \notin FeedStoreErrors)
        => runEntries \subseteq called

\* C4: only entries admitted by the Rule Evaluator reach send_to_discord: an
\* entry that the whitelist check fails or the blacklist matches is not
\* passed to it, so no POST is issued for it and its read flag is not written.
C4_OnlyAdmittedEntriesAreSent ==
    [][(pc # "mark" /\ pc' = "mark") => Admit(cur')]_vars

\* C5: after a delivery of an entry failed with a non-2xx response, the next
\* run over its feed attempts the delivery again: when a run over the
\* entry's feed is over, no stored entry is left whose latest delivery
\* failed and which the run did not pass to send_to_discord; and under fair
\* scheduling every unread entry whose feed has a webhook is eventually
\* delivered with a 2xx response and left read.
C5_NextRunAttempts ==
    pc \in {"done", "raised"}
        => \A e \in stored :
              (lastOutcome[e] = "notok" /\ runFeed \in {Nothing, FeedOf(e)})
                  => e \in called

C5_EventuallyDelivered ==
    \A e \in EntryIds :
        (e \in stored /\ ~read[e] /\ HasWebhook(FeedOf(e)))
            ~> (lastOutcome[e] = "ok" /\ read[e])

C5_FailedDeliveryIsRetried == []C5_NextRunAttempts /\ C5_EventuallyDelivered

\* C6: a feed-store error raised while refreshing never propagates out of
\* check_feeds.
C6_RefreshErrorStaysInside ==
    ~(pc = "raised" /\ runKind = "check_feeds" /\ exc \in FeedStoreErrors)

\* C7: startup starts the interval timer, and every firing of the timer has
\* run the whole-store check.
C7_EveryFiringRunsCheck ==
    scheduler # "not started"
        => (scheduler = "running" /\ timerChecks = timerFirings)

C9_MarkedReadBeforePost ==
    /\ pc \in {"post", "resp"} => read[cur]
    /\ pc = "returned"
          => writes = (IF resp = "ok" THEN <<TRUE>> ELSE <<TRUE, FALSE>>)

C9_Witness ==
    /\ pc = "returned"
    /\ resp = "notok"
    /\ writes = <<TRUE, FALSE>>

\* C10: no two registrations of the global `webhooks` tag have the same
\* name; an add_webhook whose stripped name is already registered returns
\* the error result and leaves the registry unchanged.
UniqueNames(hooks) ==
    \A i, j \in 1..Len(hooks) : hooks[i].name = hooks[j].name => i = j

NameRegistered(hooks, name) == \E i \in 1..Len(hooks) : hooks[i].name = name

C10_WebhookNamesUnique ==
    /\ []UniqueNames(webhooks)
    /\ [][\A n \in NameInputs, u \in UrlInputs :
             (add_webhook(n, u) /\ NameRegistered(webhooks, Strip(n)))
                 => (webhooks' = webhooks
                     /\ httpResult' = "error: Webhook already exists.")]_vars

C10_Witness ==
    /\ Len(webhooks) >= 2
    /\ httpResult = "error: Webhook already exists."

\* C11: between requests, every feed in the store holds its own `webhook`
\* tag with a non-empty URL, whatever sequence of create_feed, add_webhook,
\* delete_webhook and remove_feed requests ran since the store was empty.
C11_EveryFeedHasWebhook ==
    cfPc = "idle" => \A f \in feeds : HasWebhook(f)

\* C18: no webhook POST is issued for an entry that create_feed fetched when
\* it added the entry's feed, however the steps of create_feed interleave
\* with a run of check_feed / check_feeds on the scheduler's thread.
C18_OldEntriesNeverPosted ==
    [][(pc = "post" /\ pc' = "resp") => cur \notin cfOld]_vars

\* C19: an entry whose delivery the webhook answered with 2xx stays read, and
\* no later step of a run of check_feed / check_feeds issues another POST
\* for it.
C19_AtMostOnceDelivery ==
    [][\A e \in EntryIds :
          lastOutcome[e] = "ok" =>
              /\ read[e] /\ read'[e]
              /\ ~(pc = "post" /\ pc' = "resp" /\ cur = e)]_vars

\* a later run has gone through its whole snapshot without the delivered entry
C19_Witness ==
    \E e \in EntryIds :
        /\ lastOutcome[e] = "ok"
        /\ pc = "done"
        /\ called # {}
        /\ e \notin called
        /\ FeedOf(e) \in {FeedOf(x) : x \in called}

\* T contains one of the catalogued tokens
HasToken(t) == \E i \in 1..Len(TextCatalogue) : Occurs(t, Token(TextCatalogue[i]))

\* the custom message, the entry and the replacement values of the latest
\* rendering call
CalledTemplate == get_custom_message(customMessage)
CalledEntry == RenderEntries[renderCall.entry]
CalledValues ==
    Replacements(RenderFeed, CalledEntry, get_images_from_entry(CalledEntry))
MessageReturned ==
    renderCall.func = "replace_tags_in_text_message" /\ renderResult.raised = Nothing

\* C12 as stated: a template without any catalogued token is returned
\* unchanged by replace_tags_in_text_message.
C12_TokenFreeTemplateUnchanged ==
    (MessageReturned /\ ~HasToken(CalledTemplate))
        => renderResult.text = CalledTemplate

\* C12: for a template without any catalogued token,
\* replace_tags_in_text_message returns the template with every `\n` escape
\* turned into a newline, hence unchanged when it holds no such escape.
C12_TokenFreeTemplateOnlyUnescaped ==
    (MessageReturned /\ ~HasToken(CalledTemplate))
        => /\ renderResult.text = Replace(CalledTemplate, NewlineEscape, Newline)
           /\ ~Occurs(CalledTemplate, NewlineEscape) => renderResult.text = CalledTemplate

C12_Witness ==
    /\ MessageReturned
    /\ ~HasToken(CalledTemplate)
    /\ Occurs(CalledTemplate, NewlineEscape)
    /\ Occurs(renderResult.text, Newline)
    /\ Len(renderResult.text) > 1

\* C13: a token whose feed or entry attribute is None does not occur in the
\* rendered message: each occurrence was replaced by the empty string.
C13_NoneTokenRendersEmpty ==
    MessageReturned =>
        \A i \in 1..Len(TextCatalogue) :
            CalledValues[TextCatalogue[i]] = PyNone
                => ~Occurs(renderResult.text, Token(TextCatalogue[i]))

\* C14: a call of replace_tags_in_text_message or replace_tags_in_embed
\* returns a result: it never raises.
C14_RenderingNeverRaises ==
    renderCall.func \in {"replace_tags_in_text_message", "replace_tags_in_embed"}
        => renderResult.raised = Nothing

\* the first <img> of the summary and of the first content item of the
\* entry of the latest call, as sequences of at most one element
SummaryImages ==
    IF CalledEntry.summary.none THEN <<>> ELSE FindImages(CalledEntry.summary.nodes)
ContentImages ==
    IF CalledEntry.content = <<>> THEN <<>> ELSE FindImages(CalledEntry.content[1].nodes)

\* C17: get_images_from_entry yields the first <img> of the summary when
\* the summary has one, otherwise the first <img> of the content, and no
\* image only when neither has one.
C17_SummaryImageFirst ==
    (renderCall.func = "get_images_from_entry" /\ renderResult.raised = Nothing)
        => IF SummaryImages # <<>>
           THEN /\ renderResult.list # <<>>
                /\ renderResult.list[1].src = SummaryImages[1].src.chars
           ELSE IF ContentImages # <<>>
           THEN /\ renderResult.list # <<>>
                /\ renderResult.list[1].src = ContentImages[1].src.chars
           ELSE renderResult.list = <<>>

\* C15: get_embed after save_embed(R) returns R in all ten fields, and
\* get_embed on a feed without `embed` tag returns the default record,
\* which survives save_embed / get_embed as well.
C15_EmbedRoundTrip ==
    renderCall.func = "get_embed" =>
        /\ embedTag = NoTag => renderResult.embed = DefaultEmbed
        /\ \A R \in EmbedInputs : embedTag = save_embed(R) => renderResult.embed = R
        /\ get_embed(save_embed(DefaultEmbed)) = DefaultEmbed

\* an embed whose texts hold a quote, a backslash and a newline has been
\* saved and read back
C15_Witness ==
    /\ renderCall.func = "get_embed"
    /\ \E R \in EmbedInputs :
          /\ Occurs(R.title.chars, <<"\"">>)
          /\ R.color.num # DefaultColor
          /\ embedTag = save_embed(R)
          /\ renderResult.embed = R

\* C16: every string field of the embed renders to what
\* replace_tags_in_text_message returns for the field's text as custom
\* message, and the colour is returned as it was.
C16_EmbedRendersLikeMessage ==
    (renderCall.func = "replace_tags_in_embed" /\ renderResult.raised = Nothing) =>
        LET embed == get_embed(embedTag)
        IN /\ \A f \in EmbedStringFields :
                 IsStr(embed[f]) =>
                     renderResult.embed[f] =
                         PyStr(RenderMessage(embed[f].chars, RenderFeed, CalledEntry).text)
           /\ renderResult.embed["color"] = embed["color"]

====
